---- MODULE Spec2Model ----
(***************************************************************************)
(* The schema compiler of jsonschema (compiler.go): the compiled-schema    *)
(* cache keyed by canonical URI, reference resolution through scheme       *)
(* loaders, and the decoder / media-type / loader registries.              *)
(*                                                                         *)
(* A string is a sequence of lexical atoms: "https://ex/s#x" is            *)
(* <<"https", ":", "//ex/s", "#", "x">>.  The delimiters ":" and "#" are     *)
(* atoms of their own, so that splitting a reference and extracting its    *)
(* scheme are computed on the string and not looked up.  The empty string  *)
(* is << >>.  Registry keys (encoding names, media types, schemes) are     *)
(* single atoms.                                                           *)
(*                                                                         *)
(* Spec is the Compiler called by one caller, a whole call at a time;      *)
(* SpecConc is the Compiler called by two goroutines whose calls           *)
(* interleave between their reads and writes of the cache.                 *)
(***************************************************************************)
EXTENDS Naturals, Sequences, FiniteSets, TLC

(***************************************************************************)
(* Bounds of the model.                                                    *)
(***************************************************************************)
\* Schema objects that initialization may build in one behaviour.
MaxSchemas == 2
\* Configuration calls (SetSchema, Register*, SetDefaultBaseURI,
\* SetAssertFormat) in one behaviour.
MaxConfig == 1

(***************************************************************************)
(* Strings.                                                                *)
(***************************************************************************)
EmptyString == << >>

\* The nil *Schema.
Nil == 0

\* The Compiler instance the calls are made on (the receiver c).
Self == "c"

SchemeAtoms == {"mem", "ftp", "https", "http"}

RECURSIVE IndexFrom(_, _, _)
\* strings.Index: the first position >= i of atom ch in s, 0 when absent.
IndexFrom(s, ch, i) ==
    IF i > Len(s) THEN 0
    ELSE IF s[i] = ch THEN i
    ELSE IndexFrom(s, ch, i + 1)

\* splitRef(ref): base and anchor around the first fragment delimiter.
splitRef(ref) ==
    LET i == IndexFrom(ref, "#", 1)
    IN  IF i = 0 THEN [base |-> ref, anchor |-> EmptyString]
        ELSE [base |-> SubSeq(ref, 1, i - 1), anchor |-> SubSeq(ref, i + 1, Len(ref))]

\* getURLScheme(url): the scheme of url, "" when it has none.
getURLScheme(url) ==
    IF Len(url) >= 2 /\ url[1] \in SchemeAtoms /\ url[2] = ":" THEN url[1] ELSE ""

\* isValidURI(s): s parses as an absolute URI.
isValidURI(s) == getURLScheme(s) # ""

(***************************************************************************)
(* Inputs: reference strings, schema documents, registry keys.             *)
(***************************************************************************)
Doc1 == <<"https", ":", "//ex/schema.json">>
Doc1X == <<"https", ":", "//ex/schema.json", "#", "x">>
Doc1Hash == <<"https", ":", "//ex/schema.json", "#">>
Doc2 == <<"https", ":", "//ex/other.json">>
FtpDoc == <<"ftp", ":", "//ex/schema.json">>
Relative == <<"schema.json">>

\* The references handed to GetSchema.
Refs == {Doc1, Doc1X, Doc1Hash, FtpDoc}

\* The URI hints handed to Compile (URIs ...string).
Hints == {<< >>, <<Doc1>>, <<Doc2, Doc1>>, <<Relative>>}

\* The keys handed to SetSchema.
SetKeys == {Doc1, Relative}

\* A schema document (the bytes): whether it parses, the identifier it
\* declares ($id, "" when none) and the anchors it defines.
DocMalformed == [wellFormed |-> FALSE, id |-> EmptyString, anchors |-> {}]
DocPlain == [wellFormed |-> TRUE, id |-> EmptyString, anchors |-> {<<"x">>}]
DocWithID == [wellFormed |-> TRUE, id |-> Doc2, anchors |-> {}]
Documents == {DocMalformed, DocPlain, DocWithID}

(***************************************************************************)
(* The Schema type, as far as the Compiler uses it.                        *)
(***************************************************************************)
\* A *Schema a call returns: the root object h of the heap, or the
\* sub-schema of h that an anchor names (path = <<anchor>>).
Root(h) == [h |-> h, path |-> << >>]
Sub(h, anchor) == [h |-> h, path |-> <<anchor>>]

\* What the message of a loader error is formatted from: the URL, the
\* status code (0 when there is none) and a text.
Detail(url, code, text) == [url |-> url, code |-> code, text |-> text]
NoDetail == Detail(EmptyString, 0, "")

\* What a call returns: (schema, nil), (nil, err), or a panic.
Ok(s) == [kind |-> "ok", schema |-> s, err |-> "", scheme |-> "", detail |-> NoDetail]
Err(e, scheme) ==
    [kind |-> "err", schema |-> Root(Nil), err |-> e, scheme |-> scheme,
     detail |-> NoDetail]
ErrWith(e, detail) ==
    [kind |-> "err", schema |-> Root(Nil), err |-> e, scheme |-> "", detail |-> detail]
Panic ==
    [kind |-> "panic", schema |-> Root(Nil), err |-> "nil dereference", scheme |-> "",
     detail |-> NoDetail]
None == [kind |-> "none", schema |-> Root(Nil), err |-> "", scheme |-> "", detail |-> NoDetail]

\* newSchema(jsonSchema): the parsed, not yet initialized schema, or an error.
newSchema(jsonSchema) ==
    IF ~jsonSchema.wellFormed
    THEN [err |-> TRUE, schema |-> Nil]
    ELSE [err |-> FALSE,
          schema |-> [ID |-> jsonSchema.id, uri |-> EmptyString,
                      anchors |-> jsonSchema.anchors, compiler |-> "",
                      parent |-> Nil, initialized |-> FALSE]]

\* schema.initializeSchema(compiler, parent): the schema becomes a fully
\* compiled object of the heap, and registers itself in the compiler's
\* cache under its URI when it has one.
initializeSchema(cache, hp, schema, compiler, parent) ==
    LET obj == [schema EXCEPT !.compiler = compiler, !.parent = parent,
                              !.initialized = TRUE]
        h == Len(hp) + 1
    IN  [heap |-> Append(hp, obj),
         schemas |-> IF obj.uri # EmptyString THEN (obj.uri :> h) @@ cache ELSE cache,
         h |-> h]

\* schema.resolveAnchor(anchor) on the object h.
resolveAnchor(hp, h, anchor) ==
    IF h = Nil THEN Panic
    ELSE IF anchor \in hp[h].anchors THEN Ok(Sub(h, anchor))
    ELSE Err("anchor not found", "")

(***************************************************************************)
(* Compiler.Compile                                                        *)
(***************************************************************************)
\* A choice that prefers the hint to the identifier the schema declares.
CanonicalURIHintFirst(ID, URIs) ==
    IF Len(URIs) > 0 THEN URIs[1] ELSE ID

\* The canonical URI Compile chooses: schema.ID, else the first hint.
CanonicalURI(ID, URIs) ==
    IF ID = EmptyString /\ Len(URIs) > 0 THEN URIs[1] ELSE ID

\* A lookup that never finds the URI.
CachedNever(cache, uri) == FALSE

\* existingSchema, exists := c.schemas[uri]: whether the cache has the URI.
Cached(cache, uri) == uri \in DOMAIN cache

\* A Compile that caches under any non-empty canonical URI.
CompileOpAnyURI(cache, hp, jsonSchema, URIs) ==
    LET parsed == newSchema(jsonSchema)
    IN  IF parsed.err
        THEN [out |-> Err("parse", ""), schemas |-> cache, heap |-> hp,
              ID |-> EmptyString, canon |-> EmptyString, hit |-> FALSE, inits |-> 0]
        ELSE
        LET uri == CanonicalURI(parsed.schema.ID, URIs)
            valid == uri # EmptyString
            schema == IF valid THEN [parsed.schema EXCEPT !.uri = uri]
                      ELSE parsed.schema
        IN  IF valid /\ Cached(cache, uri)
            THEN [out |-> Ok(Root(cache[uri])), schemas |-> cache, heap |-> hp,
                  ID |-> schema.ID, canon |-> uri, hit |-> TRUE, inits |-> 0]
            ELSE
            LET init == initializeSchema(cache, hp, schema, Self, Nil)
            IN  [out |-> Ok(Root(init.h)), schemas |-> init.schemas,
                 heap |-> init.heap, ID |-> schema.ID, canon |-> uri, hit |-> FALSE,
                 inits |-> 1]

\* Compile(jsonSchema, URIs...) on the cache and heap given: the result,
\* the cache and heap it leaves, and what it did on the way.
CompileOp(cache, hp, jsonSchema, URIs) ==
    LET parsed == newSchema(jsonSchema)
    IN  IF parsed.err
        THEN [out |-> Err("parse", ""), schemas |-> cache, heap |-> hp,
              ID |-> EmptyString, canon |-> EmptyString, hit |-> FALSE, inits |-> 0]
        ELSE
        LET uri == CanonicalURI(parsed.schema.ID, URIs)
            valid == uri # EmptyString /\ isValidURI(uri)
            schema == IF valid THEN [parsed.schema EXCEPT !.uri = uri]
                      ELSE parsed.schema
        IN  IF valid /\ Cached(cache, uri)
            THEN [out |-> Ok(Root(cache[uri])), schemas |-> cache, heap |-> hp,
                  ID |-> schema.ID, canon |-> uri, hit |-> TRUE, inits |-> 0]
            ELSE
            LET init == initializeSchema(cache, hp, schema, Self, Nil)
            IN  [out |-> Ok(Root(init.h)), schemas |-> init.schemas,
                 heap |-> init.heap, ID |-> schema.ID, canon |-> uri, hit |-> FALSE,
                 inits |-> 1]

(***************************************************************************)
(* Loaders.  A loader is a function value of the Loaders registry; what it *)
(* returns for a URL depends on the world outside (net): whether the       *)
(* transport fails, the status of the response, whether the body can be    *)
(* read to its end, and the bytes it carries.                              *)
(***************************************************************************)
\* http.StatusOK
StatusOK == 200

Statuses == {StatusOK, 404, 500}

\* http.StatusText(code)
StatusText(code) ==
    CASE code = 200 -> "OK"
      [] code = 404 -> "Not Found"
      [] code = 500 -> "Internal Server Error"
      [] OTHER -> ""

\* The text of the error client.Get returns when the transport fails.
TransportError == "dial tcp: connection refused"

Nets ==
    {[transport |-> "err", status |-> 0, readErr |-> FALSE, data |-> DocMalformed]}
    \cup {[transport |-> "ok", status |-> st, readErr |-> FALSE, data |-> DocMalformed] :
            st \in Statuses \ {StatusOK}}
    \cup {[transport |-> "ok", status |-> StatusOK, readErr |-> TRUE, data |-> DocMalformed]}
    \cup {[transport |-> "ok", status |-> StatusOK, readErr |-> FALSE, data |-> d] :
            d \in Documents}

\* What passed between a loader and the server: whether client.Get
\* failed, the status of the response (0 when there was none), and the Close
\* calls the loader itself made on the response body.
Wire(transport, status, respClosed) ==
    [transport |-> transport, status |-> status, respClosed |-> respClosed]
NoWire == Wire("", 0, 0)

\* A loader that leaves the body of a response it rejects open.
defaultHTTPLoaderLeak(url, net) ==
    IF net.transport = "err"
    THEN [err |-> TRUE, out |-> ErrWith("fetch", Detail(url, 0, TransportError)),
          wire |-> Wire("err", 0, 0)]
    ELSE IF net.status # StatusOK
    THEN [err |-> TRUE,
          out |-> ErrWith("status", Detail(url, net.status, StatusText(net.status))),
          wire |-> Wire("ok", net.status, 0)]
    ELSE [err |-> FALSE, out |-> None, wire |-> Wire("ok", net.status, 0)]

\* The default loader of the schemes http and https: (body, nil) on status
\* 200 only, else (nil, err) with err formatted from the URL and the
\* transport error ("failed to fetch %s: %v"), or from the URL, the status
\* code and its text ("%s returned status code %d: %s") after closing the
\* body of the response.
defaultHTTPLoader(url, net) ==
    IF net.transport = "err"
    THEN [err |-> TRUE, out |-> ErrWith("fetch", Detail(url, 0, TransportError)),
          wire |-> Wire("err", 0, 0)]
    ELSE IF net.status # StatusOK
    THEN [err |-> TRUE,
          out |-> ErrWith("status", Detail(url, net.status, StatusText(net.status))),
          wire |-> Wire("ok", net.status, 1)]
    ELSE [err |-> FALSE, out |-> None, wire |-> Wire("ok", net.status, 0)]

\* A loader the caller registers: it fails or hands out a stream.
memLoader(url, net) ==
    IF net.transport = "err" \/ net.status # StatusOK
    THEN [err |-> TRUE, out |-> Err("custom loader", ""), wire |-> NoWire]
    ELSE [err |-> FALSE, out |-> None, wire |-> NoWire]

LoaderFns == {"defaultHTTPLoader", "memLoader"}

\* loader(url), for the function value fn of the registry.
InvokeLoader(fn, url, net) ==
    IF fn = "defaultHTTPLoader" THEN defaultHTTPLoader(url, net) ELSE memLoader(url, net)

(***************************************************************************)
(* Compiler.resolveSchemaURL and Compiler.GetSchema                        *)
(***************************************************************************)
\* A Close that only the successful path makes.
BodyClosesOnSuccess(path) == IF path = "ok" THEN 1 ELSE 0

\* defer body.Close(): the Close calls made on the stream the loader
\* returned, on the exit path given ("read", "compile", "anchor", "ok").
BodyCloses(path) == 1

\* What a resolution did besides its result: loader invocations, streams
\* the loader handed over, Close calls on them, initializations run, and
\* what passed between the loader and the server.
Effort(loads, opened, closes, inits, wire) ==
    [loads |-> loads, opened |-> opened, closes |-> closes, inits |-> inits,
     wire |-> wire]

\* A lookup that falls back to the HTTP loader for an unknown scheme.
LoaderLookupFallback(loaders, scheme) ==
    IF scheme \in DOMAIN loaders THEN [ok |-> TRUE, fn |-> loaders[scheme]]
    ELSE [ok |-> TRUE, fn |-> "defaultHTTPLoader"]

\* loader, ok := c.Loaders[scheme]
LoaderLookup(loaders, scheme) ==
    IF scheme \in DOMAIN loaders THEN [ok |-> TRUE, fn |-> loaders[scheme]]
    ELSE [ok |-> FALSE, fn |-> ""]

resolveSchemaURLOp(cache, hp, loaders, url, net) ==
    LET id == splitRef(url).base
        anchor == splitRef(url).anchor
        scheme == getURLScheme(url)
        loader == LoaderLookup(loaders, scheme)
    IN  IF id \in DOMAIN cache
        THEN [out |-> Ok(Root(cache[id])), schemas |-> cache, heap |-> hp,
              did |-> Effort(0, 0, 0, 0, NoWire)]
        ELSE IF ~loader.ok
        THEN [out |-> Err("no loader registered for scheme", scheme),
              schemas |-> cache, heap |-> hp, did |-> Effort(0, 0, 0, 0, NoWire)]
        ELSE
        LET body == InvokeLoader(loader.fn, url, net)
        IN  IF body.err
            THEN [out |-> body.out, schemas |-> cache, heap |-> hp,
                  did |-> Effort(1, 0, 0, 0, body.wire)]
            ELSE IF net.readErr
            THEN [out |-> Err("read", ""), schemas |-> cache, heap |-> hp,
                  did |-> Effort(1, 1, BodyCloses("read"), 0, body.wire)]
            ELSE
            LET comp == CompileOp(cache, hp, net.data, <<id>>)
            IN  IF comp.out.kind = "err"
                THEN [out |-> comp.out, schemas |-> comp.schemas, heap |-> comp.heap,
                      did |-> Effort(1, 1, BodyCloses("compile"), comp.inits, body.wire)]
                ELSE IF anchor # EmptyString
                THEN [out |-> resolveAnchor(comp.heap, comp.out.schema.h, anchor),
                      schemas |-> comp.schemas, heap |-> comp.heap,
                      did |-> Effort(1, 1, BodyCloses("anchor"), comp.inits, body.wire)]
                ELSE [out |-> comp.out, schemas |-> comp.schemas, heap |-> comp.heap,
                      did |-> Effort(1, 1, BodyCloses("ok"), comp.inits, body.wire)]

\* A GetSchema that marks the base URI as being resolved and leaves the mark
\* behind when the resolution fails.
GetSchemaOpReserve(cache, hp, loaders, ref, net) ==
    LET baseURI == splitRef(ref).base
        anchor == splitRef(ref).anchor
        r == resolveSchemaURLOp(cache, hp, loaders, ref, net)
    IN  IF baseURI \in DOMAIN cache
        THEN [out |-> IF baseURI = ref THEN Ok(Root(cache[baseURI]))
                      ELSE resolveAnchor(hp, cache[baseURI], anchor),
              schemas |-> cache, heap |-> hp, did |-> Effort(0, 0, 0, 0, NoWire)]
        ELSE IF r.out.kind = "err"
        THEN [r EXCEPT !.schemas = (baseURI :> Nil) @@ r.schemas]
        ELSE r

\* A GetSchema that tells a reference without anchor by its empty anchor.
GetSchemaOpEmptyAnchor(cache, hp, loaders, ref, net) ==
    LET baseURI == splitRef(ref).base
        anchor == splitRef(ref).anchor
    IN  IF baseURI \in DOMAIN cache
        THEN [out |-> IF anchor = EmptyString THEN Ok(Root(cache[baseURI]))
                      ELSE resolveAnchor(hp, cache[baseURI], anchor),
              schemas |-> cache, heap |-> hp, did |-> Effort(0, 0, 0, 0, NoWire)]
        ELSE resolveSchemaURLOp(cache, hp, loaders, ref, net)

\* A GetSchema that resolves the base URI in place of the reference.
GetSchemaOpBaseOnly(cache, hp, loaders, ref, net) ==
    LET baseURI == splitRef(ref).base
        anchor == splitRef(ref).anchor
    IN  IF baseURI \in DOMAIN cache
        THEN [out |-> IF baseURI = ref THEN Ok(Root(cache[baseURI]))
                      ELSE resolveAnchor(hp, cache[baseURI], anchor),
              schemas |-> cache, heap |-> hp, did |-> Effort(0, 0, 0, 0, NoWire)]
        ELSE resolveSchemaURLOp(cache, hp, loaders, baseURI, net)

\* GetSchema(ref) on the cache, heap and loaders given.
GetSchemaOp(cache, hp, loaders, ref, net) ==
    LET baseURI == splitRef(ref).base
        anchor == splitRef(ref).anchor
    IN  IF baseURI \in DOMAIN cache
        THEN [out |-> IF baseURI = ref THEN Ok(Root(cache[baseURI]))
                      ELSE resolveAnchor(hp, cache[baseURI], anchor),
              schemas |-> cache, heap |-> hp, did |-> Effort(0, 0, 0, 0, NoWire)]
        ELSE resolveSchemaURLOp(cache, hp, loaders, ref, net)

(***************************************************************************)
(* The Compiler.                                                           *)
(***************************************************************************)
VARIABLES
    schemas,        \* c.schemas: canonical URI -> *Schema (a heap index, or Nil)
    heap,           \* the Schema objects built so far, by index
    Decoders,       \* c.Decoders: encoding name -> decoder function
    MediaTypes,     \* c.MediaTypes: media type -> unmarshal function
    Loaders,        \* c.Loaders: scheme -> loader function
    DefaultBaseURI, \* c.DefaultBaseURI
    AssertFormat,   \* c.AssertFormat
    last,           \* the call made last: what it was given, did and returned
    before,         \* the state that call found: cache, heap size, registries
    nconf,          \* configuration calls made so far
    threads         \* the calls in flight on the Compiler, one per goroutine

vars == <<schemas, heap, Decoders, MediaTypes, Loaders, DefaultBaseURI,
          AssertFormat, last, before, nconf, threads>>

\* The goroutines that call the one Compiler without synchronisation.
Procs == {"p", "q"}

\* A goroutine and the call it is in: where it stands (pc), the call and
\* its arguments, the parsed schema awaiting initialization, what it has
\* done, its result, and what each of its reads of the cache found ("hit",
\* "miss", or "" for a read not made).
Idle ==
    [pc |-> "idle", op |-> "", ref |-> EmptyString, data |-> DocMalformed,
     URIs |-> << >>, pending |-> << >>, loads |-> 0, inits |-> 0, out |-> None,
     sawGet |-> "", sawResolve |-> "", sawCompile |-> ""]

DecoderNames == {"base64", "hex"}
DecoderFns == {"hexDecode"}
MediaTypeNames == {"application/json", "text/csv"}
MediaTypeFns == {"unmarshalCSV"}
LoaderSchemes == {"mem", "https"}
BaseURIs == {Doc1}

\* c.setupMediaTypes()
setupMediaTypes ==
    ("application/json" :> "unmarshalJSON") @@ ("application/xml" :> "unmarshalXML")
        @@ ("application/yaml" :> "unmarshalYAML")

\* A setup that registers the loader for http only.
setupLoadersPlainOnly == ("http" :> "defaultHTTPLoader")

\* c.setupLoaders()
setupLoaders == ("http" :> "defaultHTTPLoader") @@ ("https" :> "defaultHTTPLoader")

\* c.initDefaults(), on the empty registries NewCompiler makes.
initDefaults ==
    [Decoders |-> ("base64" :> "base64.StdEncoding.DecodeString"),
     MediaTypes |-> setupMediaTypes,
     Loaders |-> setupLoaders]

\* The record of a call: the string it was given (for Compile: the
\* identifier its document declares), the value it was given to store (for
\* Compile: the URI hints), the canonical URI it chose, its result, whether the URI it looked up was
\* cached, what it did, and the Compiler it returned.
Call(op, arg, val, canon, out, hit, did, ret) ==
    [op |-> op, arg |-> arg, val |-> val, canon |-> canon, out |-> out,
     hit |-> hit, did |-> did, ret |-> ret]

\* What the call being made finds: the state it starts from.
Found ==
    [schemas |-> schemas, nheap |-> Len(heap), decoders |-> Decoders,
     mediaTypes |-> MediaTypes, loaders |-> Loaders, baseURI |-> DefaultBaseURI,
     assertFormat |-> AssertFormat]

\* NewCompiler()
Init ==
    /\ schemas = << >>
    /\ heap = << >>
    /\ Decoders = initDefaults.Decoders
    /\ MediaTypes = initDefaults.MediaTypes
    /\ Loaders = initDefaults.Loaders
    /\ DefaultBaseURI = EmptyString
    /\ AssertFormat = FALSE
    /\ last = Call("NewCompiler", EmptyString, "", EmptyString, None, FALSE,
                   Effort(0, 0, 0, 0, NoWire), Self)
    /\ before = [schemas |-> << >>, nheap |-> 0, decoders |-> << >>,
                 mediaTypes |-> << >>, loaders |-> << >>, baseURI |-> EmptyString,
                 assertFormat |-> FALSE]
    /\ nconf = 0
    /\ threads = [p \in Procs |-> Idle]

Compile(jsonSchema, URIs) ==
    \E r \in {CompileOp(schemas, heap, jsonSchema, URIs)} :
        /\ Len(r.heap) <= MaxSchemas
        /\ schemas' = r.schemas
        /\ heap' = r.heap
        /\ last' = Call("Compile", r.ID, URIs, r.canon, r.out, r.hit,
                        Effort(0, 0, 0, r.inits, NoWire), "")
        /\ before' = Found
        /\ UNCHANGED <<Decoders, MediaTypes, Loaders, DefaultBaseURI, AssertFormat,
                       nconf, threads>>

\* A GetSchema that sets the default loaders up again.
GetSchemaSetsUp(ref, net) ==
    \E r \in {GetSchemaOp(schemas, heap, Loaders, ref, net)} :
        /\ Len(r.heap) <= MaxSchemas
        /\ schemas' = r.schemas
        /\ heap' = r.heap
        /\ last' = Call("GetSchema", ref, "", EmptyString, r.out,
                        splitRef(ref).base \in DOMAIN schemas, r.did, "")
        /\ before' = Found
        /\ Loaders' = setupLoaders
        /\ UNCHANGED <<Decoders, MediaTypes, DefaultBaseURI, AssertFormat, nconf,
                       threads>>

GetSchema(ref, net) ==
    \E r \in {GetSchemaOp(schemas, heap, Loaders, ref, net)} :
        /\ Len(r.heap) <= MaxSchemas
        /\ schemas' = r.schemas
        /\ heap' = r.heap
        /\ last' = Call("GetSchema", ref, "", EmptyString, r.out,
                        splitRef(ref).base \in DOMAIN schemas, r.did, "")
        /\ before' = Found
        /\ UNCHANGED <<Decoders, MediaTypes, Loaders, DefaultBaseURI, AssertFormat,
                       nconf, threads>>

\* A configuration call: it returns the Compiler it was called on.
Configured(op, key, val) ==
    /\ nconf < MaxConfig
    /\ nconf' = nconf + 1
    /\ last' = Call(op, key, val, EmptyString, None, FALSE,
                    Effort(0, 0, 0, 0, NoWire), Self)
    /\ before' = Found
    /\ UNCHANGED threads

SetSchema(uri, schema) ==
    /\ Configured("SetSchema", uri, schema)
    /\ schemas' = (uri :> schema) @@ schemas
    /\ UNCHANGED <<heap, Decoders, MediaTypes, Loaders, DefaultBaseURI,
                   AssertFormat>>

SetDefaultBaseURI(baseURI) ==
    /\ Configured("SetDefaultBaseURI", baseURI, "")
    /\ DefaultBaseURI' = baseURI
    /\ UNCHANGED <<schemas, heap, Decoders, MediaTypes, Loaders, AssertFormat>>

SetAssertFormat(assert) ==
    /\ Configured("SetAssertFormat", EmptyString, assert)
    /\ AssertFormat' = assert
    /\ UNCHANGED <<schemas, heap, Decoders, MediaTypes, Loaders, DefaultBaseURI>>

RegisterDecoder(encodingName, decoderFunc) ==
    /\ Configured("RegisterDecoder", <<encodingName>>, decoderFunc)
    /\ Decoders' = (encodingName :> decoderFunc) @@ Decoders
    /\ UNCHANGED <<schemas, heap, MediaTypes, Loaders, DefaultBaseURI,
                   AssertFormat>>

RegisterMediaType(mediaTypeName, unmarshalFunc) ==
    /\ Configured("RegisterMediaType", <<mediaTypeName>>, unmarshalFunc)
    /\ MediaTypes' = (mediaTypeName :> unmarshalFunc) @@ MediaTypes
    /\ UNCHANGED <<schemas, heap, Decoders, Loaders, DefaultBaseURI,
                   AssertFormat>>

\* A registration that keeps the loader a scheme already has.
RegisterLoaderFirstWins(scheme, loaderFunc) ==
    /\ Configured("RegisterLoader", <<scheme>>, loaderFunc)
    /\ Loaders' = Loaders @@ (scheme :> loaderFunc)
    /\ UNCHANGED <<schemas, heap, Decoders, MediaTypes, DefaultBaseURI,
                   AssertFormat>>

RegisterLoader(scheme, loaderFunc) ==
    /\ Configured("RegisterLoader", <<scheme>>, loaderFunc)
    /\ Loaders' = (scheme :> loaderFunc) @@ Loaders
    /\ UNCHANGED <<schemas, heap, Decoders, MediaTypes, DefaultBaseURI,
                   AssertFormat>>

\* The *Schema values a caller can hand to SetSchema: nil, or a schema an
\* earlier call returned.
Held == {Nil} \cup (1 .. Len(heap))

\* The world outside is consulted by a loader invocation only: a call that
\* invokes none is enumerated once.
NetsFor(ref) ==
    IF splitRef(ref).base \notin DOMAIN schemas /\ getURLScheme(ref) \in DOMAIN Loaders
    THEN Nets
    ELSE {CHOOSE net \in Nets : net.transport = "err"}

Next ==
    \/ \E d \in Documents, u \in Hints : Compile(d, u)
    \/ \E ref \in Refs : \E net \in NetsFor(ref) : GetSchema(ref, net)
    \/ \E uri \in SetKeys, schema \in Held : SetSchema(uri, schema)
    \/ \E b \in BaseURIs : SetDefaultBaseURI(b)
    \/ \E a \in {TRUE} : SetAssertFormat(a)
    \/ \E n \in DecoderNames, f \in DecoderFns : RegisterDecoder(n, f)
    \/ \E n \in MediaTypeNames, f \in MediaTypeFns : RegisterMediaType(n, f)
    \/ \E sch \in LoaderSchemes, f \in {"memLoader"} : RegisterLoader(sch, f)

Spec == Init /\ [][Next]_vars

(***************************************************************************)
(* The same methods, called from two goroutines at once.  The Compiler has *)
(* no lock: a call is a sequence of steps, each holding one read or one    *)
(* write of the cache, and the steps of the two calls interleave freely.   *)
(***************************************************************************)
\* What the steps of a call in flight leave alone.
settings == <<Decoders, MediaTypes, Loaders, DefaultBaseURI, AssertFormat, last,
              before, nconf>>

\* The references and documents the goroutines call with.
ConcRefs == {Doc1, Doc1X}
ConcCompiles == {[data |-> DocPlain, URIs |-> <<Doc1>>], [data |-> DocWithID, URIs |-> << >>]}

\* What a read of the cache for uri finds.
Saw(uri) == IF uri \in DOMAIN schemas THEN "hit" ELSE "miss"

\* The call of goroutine p returns out.
Return(t, out) == [t EXCEPT !.pc = "done", !.out = out]

\* What the call returns once Compile has given it the schema h:
\* resolveSchemaURL resolves the anchor of its url on it, if it has one.
Finish(t, hp, h) ==
    IF t.op = "GetSchema" /\ splitRef(t.ref).anchor # EmptyString
    THEN resolveAnchor(hp, h, splitRef(t.ref).anchor)
    ELSE Ok(Root(h))

\* go c.GetSchema(ref)
StartGetSchema(p, ref) ==
    /\ threads[p].pc = "idle"
    /\ threads' = [threads EXCEPT ![p] =
                      [Idle EXCEPT !.pc = "GetCheck", !.op = "GetSchema", !.ref = ref]]
    /\ UNCHANGED <<schemas, heap, settings>>

\* go c.Compile(jsonSchema, URIs...)
StartCompile(p, jsonSchema, URIs) ==
    /\ threads[p].pc = "idle"
    /\ threads' = [threads EXCEPT ![p] =
                      [Idle EXCEPT !.pc = "CompileLookup", !.op = "Compile",
                                   !.data = jsonSchema, !.URIs = URIs]]
    /\ UNCHANGED <<schemas, heap, settings>>

\* GetSchema's read of the cache: a cached base URI answers the call, a
\* missing one sends it to resolveSchemaURL.
GetCheck(p) ==
    LET t == threads[p]
        baseURI == splitRef(t.ref).base
        anchor == splitRef(t.ref).anchor
    IN  /\ t.pc = "GetCheck"
        /\ threads' = [threads EXCEPT ![p] =
              IF baseURI \in DOMAIN schemas
              THEN Return([t EXCEPT !.sawGet = Saw(baseURI)],
                          IF baseURI = t.ref THEN Ok(Root(schemas[baseURI]))
                          ELSE resolveAnchor(heap, schemas[baseURI], anchor))
              ELSE [t EXCEPT !.pc = "ResolveCheck", !.sawGet = Saw(baseURI)]]
        /\ UNCHANGED <<schemas, heap, settings>>

\* resolveSchemaURL's read of the cache, and its lookup of the loader when
\* the base URI is still missing.
ResolveCheck(p) ==
    LET t == threads[p]
        id == splitRef(t.ref).base
        scheme == getURLScheme(t.ref)
        seen == [t EXCEPT !.sawResolve = Saw(id)]
    IN  /\ t.pc = "ResolveCheck"
        /\ threads' = [threads EXCEPT ![p] =
              IF id \in DOMAIN schemas
              THEN Return(seen, Ok(Root(schemas[id])))
              ELSE IF ~LoaderLookup(Loaders, scheme).ok
              THEN Return(seen, Err("no loader registered for scheme", scheme))
              ELSE [seen EXCEPT !.pc = "Load"]]
        /\ UNCHANGED <<schemas, heap, settings>>

\* resolveSchemaURL invokes the loader and reads the stream to its end.
Load(p, net) ==
    LET t == threads[p]
        id == splitRef(t.ref).base
        body == InvokeLoader(LoaderLookup(Loaders, getURLScheme(t.ref)).fn, t.ref, net)
        loaded == [t EXCEPT !.loads = @ + 1]
    IN  /\ t.pc = "Load"
        /\ threads' = [threads EXCEPT ![p] =
              IF body.err THEN Return(loaded, body.out)
              ELSE IF net.readErr THEN Return(loaded, Err("read", ""))
              ELSE [loaded EXCEPT !.pc = "CompileLookup", !.data = net.data,
                                  !.URIs = <<id>>]]
        /\ UNCHANGED <<schemas, heap, settings>>

\* Compile parses the bytes, chooses the canonical URI and reads the cache.
CompileLookup(p) ==
    LET t == threads[p]
        parsed == newSchema(t.data)
        uri == CanonicalURI(parsed.schema.ID, t.URIs)
        valid == uri # EmptyString /\ isValidURI(uri)
        schema == IF valid THEN [parsed.schema EXCEPT !.uri = uri] ELSE parsed.schema
    IN  /\ t.pc = "CompileLookup"
        /\ threads' = [threads EXCEPT ![p] =
              IF parsed.err THEN Return(t, Err("parse", ""))
              ELSE IF valid /\ Cached(schemas, uri)
              THEN Return([t EXCEPT !.sawCompile = Saw(uri)],
                          Finish(t, heap, schemas[uri]))
              ELSE [t EXCEPT !.pc = "Initialize", !.pending = <<schema>>,
                             !.sawCompile = IF valid THEN Saw(uri) ELSE ""]]
        /\ UNCHANGED <<schemas, heap, settings>>

\* Compile initializes the schema it parsed, which writes the cache.
Initialize(p) ==
    LET t == threads[p]
    IN  /\ t.pc = "Initialize"
        /\ Len(heap) < MaxSchemas
        /\ \E init \in {initializeSchema(schemas, heap, t.pending[1], Self, Nil)} :
              /\ schemas' = init.schemas
              /\ heap' = init.heap
              /\ threads' = [threads EXCEPT ![p] =
                                Return([t EXCEPT !.inits = @ + 1, !.pending = << >>],
                                       Finish(t, init.heap, init.h))]
        /\ UNCHANGED settings

\* c.schemas is a Go map: when one goroutine is about to write it while the
\* other is about to read or write it, the accesses may overlap, and the
\* runtime may then stop the whole program ("concurrent map read and map
\* write", "concurrent map writes").
Fatal ==
    /\ \E p, q \in Procs :
          /\ p # q
          /\ threads[p].pc = "Initialize"
          /\ threads[q].pc \in {"GetCheck", "ResolveCheck", "CompileLookup", "Initialize"}
    /\ threads' = [p \in Procs |-> [threads[p] EXCEPT !.pc = "fatal"]]
    /\ UNCHANGED <<schemas, heap, settings>>

NextConc ==
    \/ \E p \in Procs, ref \in ConcRefs : StartGetSchema(p, ref)
    \/ \E p \in Procs, c \in ConcCompiles : StartCompile(p, c.data, c.URIs)
    \/ \E p \in Procs : GetCheck(p)
    \/ \E p \in Procs : ResolveCheck(p)
    \/ \E p \in Procs, net \in Nets : Load(p, net)
    \/ \E p \in Procs : CompileLookup(p)
    \/ \E p \in Procs : Initialize(p)
    \/ Fatal

SpecConc == Init /\ [][NextConc]_vars

(***************************************************************************)
(* Properties.                                                             *)
(***************************************************************************)
\* Whether uri is a canonical URI Compile caches under.
Cacheable(uri) == uri # EmptyString /\ isValidURI(uri)

\* C1: of two successive successful Compile calls whose canonical URI is the
\* same valid URI, the second returns the very instance the first returned,
\* whatever bytes it is given.
C1_SameInstance ==
    [][(/\ last.op = "Compile" /\ last.out.kind = "ok"
        /\ last'.op = "Compile" /\ last'.out.kind = "ok"
        /\ last'.canon = last.canon
        /\ Cacheable(last'.canon))
       => last'.out.schema = last.out.schema]_vars

\* A Compile call of a document declaring an identifier was answered from
\* the cache with the instance built earlier from a document declaring none.
C1_Witness ==
    /\ last.op = "Compile" /\ last.out.kind = "ok" /\ last.hit
    /\ last.out.schema.h # Nil
    /\ last.arg = last.canon
    /\ heap[last.out.schema.h].uri = last.canon
    /\ heap[last.out.schema.h].ID = EmptyString

\* C2: a Compile call whose canonical URI is valid and cached returns the
\* cached instance, runs no initialization and leaves the cache entry, the
\* whole cache and the heap as they were.
C2_FirstCompilationWins ==
    (/\ last.op = "Compile" /\ last.out.kind = "ok"
     /\ Cacheable(last.canon)
     /\ last.canon \in DOMAIN before.schemas)
    => /\ last.out = Ok(Root(before.schemas[last.canon]))
       /\ last.did.inits = 0
       /\ schemas = before.schemas
       /\ Len(heap) = before.nheap

\* A Compile call found its canonical URI in the cache and initialized nothing.
C2_Witness ==
    /\ last.op = "Compile" /\ last.hit /\ last.did.inits = 0
    /\ last.canon \in DOMAIN before.schemas
    /\ before.schemas[last.canon] # Nil
    /\ last.out = Ok(Root(before.schemas[last.canon]))

\* C3: once a GetSchema call has resolved a URI by invoking a registered
\* custom loader, the next GetSchema call that resolves the same base URI
\* invokes no loader.
C3_LoaderOncePerURI ==
    [][(/\ last.op = "GetSchema" /\ last.out.kind = "ok" /\ last.did.loads = 1
        /\ LoaderLookup(Loaders, getURLScheme(last.arg)).fn = "memLoader"
        /\ last'.op = "GetSchema" /\ last'.out.kind = "ok"
        /\ splitRef(last'.arg).base = splitRef(last.arg).base)
       => last'.did.loads = 0]_vars

\* C4: a GetSchema call whose base URI is not cached and whose scheme has no
\* loader fails with the error "no loader registered for scheme" naming the
\* scheme, invokes no loader and leaves the cache as it was.
C4_NoLoaderForScheme ==
    (/\ last.op = "GetSchema"
     /\ splitRef(last.arg).base \notin DOMAIN before.schemas
     /\ getURLScheme(last.arg) \notin DOMAIN before.loaders)
    => /\ last.out = Err("no loader registered for scheme", getURLScheme(last.arg))
       /\ (last.arg = FtpDoc => last.out.scheme = "ftp")
       /\ last.did.loads = 0
       /\ last.did.opened = 0
       /\ schemas = before.schemas

\* A GetSchema call of an ftp reference failed for want of a loader.
C4_Witness ==
    /\ last.op = "GetSchema" /\ last.arg = FtpDoc
    /\ last.out.kind = "err"
    /\ last.out.err = "no loader registered for scheme"
    /\ last.out.scheme = "ftp"
    /\ "ftp" \notin DOMAIN before.loaders

\* The errors of a failed parse, a missing loader, a failed loader (transport
\* error, status other than 200, custom loader error) and a failed read.
ListedErrors ==
    {"parse", "no loader registered for scheme", "fetch", "status",
     "custom loader", "read"}

\* C5: a Compile or GetSchema call that returns a parse error, a missing
\* loader error, a loader error or a read error leaves the cache exactly as
\* it found it.
C5_ErrorLeavesCache ==
    (/\ last.op \in {"Compile", "GetSchema"}
     /\ last.out.kind = "err"
     /\ last.out.err \in ListedErrors)
    => schemas = before.schemas

\* A GetSchema call through the default loader failed on a status other than
\* 200 with a cache that already held an entry.
C5_Witness ==
    /\ last.op = "GetSchema" /\ last.out.kind = "err" /\ last.out.err = "status"
    /\ last.did.loads = 1
    /\ before.schemas # << >>
    /\ schemas = before.schemas

\* C6: a GetSchema call whose base URI is cached invokes no loader; it
\* returns the cached schema when the reference is the base URI itself, and
\* otherwise what the cached schema's anchor resolver returns for the anchor.
C6_CachedBase ==
    (/\ last.op = "GetSchema"
     /\ splitRef(last.arg).base \in DOMAIN before.schemas)
    => LET base == splitRef(last.arg).base
           cached == before.schemas[base]
       IN  /\ last.did.loads = 0
           /\ last.arg = base => last.out = Ok(Root(cached))
           /\ last.arg # base
                => last.out = resolveAnchor(heap, cached, splitRef(last.arg).anchor)

\* A GetSchema call of a reference with an anchor was answered by the cached
\* document's anchor resolver, without a loader.
C6_Witness ==
    /\ last.op = "GetSchema" /\ last.arg = Doc1X
    /\ Doc1 \in DOMAIN before.schemas
    /\ last.did.loads = 0
    /\ last.out = Ok(Sub(before.schemas[Doc1], <<"x">>))

\* C7: every URI of the cache maps to a fully compiled schema.
C7_CacheFullyCompiled ==
    \A uri \in DOMAIN schemas :
        /\ schemas[uri] # Nil
        /\ heap[schemas[uri]].initialized

\* The map m with the key k set to v.
Put(m, k, v) == [x \in DOMAIN m \cup {k} |-> IF x = k THEN v ELSE m[x]]

\* C8: SetSchema, RegisterDecoder, RegisterMediaType and RegisterLoader set
\* the entry of the given key in their own map to the given value, leave
\* every other key and the other three maps as they were, and return the
\* Compiler they were called on.
C8_RegistrationOverwrites ==
    /\ last.op = "SetSchema"
         => /\ schemas = Put(before.schemas, last.arg, last.val)
            /\ Decoders = before.decoders
            /\ MediaTypes = before.mediaTypes
            /\ Loaders = before.loaders
            /\ last.ret = Self
    /\ last.op = "RegisterDecoder"
         => /\ Decoders = Put(before.decoders, last.arg[1], last.val)
            /\ schemas = before.schemas
            /\ MediaTypes = before.mediaTypes
            /\ Loaders = before.loaders
            /\ last.ret = Self
    /\ last.op = "RegisterMediaType"
         => /\ MediaTypes = Put(before.mediaTypes, last.arg[1], last.val)
            /\ schemas = before.schemas
            /\ Decoders = before.decoders
            /\ Loaders = before.loaders
            /\ last.ret = Self
    /\ last.op = "RegisterLoader"
         => /\ Loaders = Put(before.loaders, last.arg[1], last.val)
            /\ schemas = before.schemas
            /\ Decoders = before.decoders
            /\ MediaTypes = before.mediaTypes
            /\ last.ret = Self

\* A RegisterLoader call replaced the default loader of https and left the
\* loader of http alone.
C8_Witness ==
    /\ last.op = "RegisterLoader" /\ last.arg = <<"https">>
    /\ before.loaders["https"] = "defaultHTTPLoader"
    /\ Loaders["https"] = "memLoader"
    /\ Loaders["http"] = "defaultHTTPLoader"

\* C9: in a GetSchema call, a stream the loader returned is closed exactly
\* once, whether the read fails, the compilation fails, the anchor
\* resolution fails or all succeed; when the loader fails, or is not
\* invoked, no stream is closed.
C9_StreamClosedOnce ==
    last.op = "GetSchema"
    => /\ last.did.opened <= last.did.loads
       /\ last.did.closes = last.did.opened
       /\ (last.out.kind = "err" /\ last.out.err \in {"fetch", "status", "custom loader"})
            => last.did.opened = 0 /\ last.did.closes = 0
       /\ (last.out.kind = "err" /\ last.out.err = "read")
            => last.did.opened = 1 /\ last.did.closes = 1
       /\ (last.did.loads = 1 /\ last.out.kind = "err" /\ last.out.err = "parse")
            => last.did.opened = 1 /\ last.did.closes = 1
       /\ (last.did.loads = 1 /\ last.out.kind = "err" /\ last.out.err = "anchor not found")
            => last.did.opened = 1 /\ last.did.closes = 1
       /\ (last.did.loads = 1 /\ last.out.kind = "ok")
            => last.did.opened = 1 /\ last.did.closes = 1

\* A GetSchema call fetched a document, failed to resolve the anchor in it
\* and closed the stream once.
C9_Witness ==
    /\ last.op = "GetSchema" /\ last.did.loads = 1
    /\ last.out.kind = "err" /\ last.out.err = "anchor not found"
    /\ last.did.opened = 1 /\ last.did.closes = 1

C11_NewCompilerDefaults ==
    last.op = "NewCompiler"
    => /\ last.ret = Self
       /\ DOMAIN schemas = {}
       /\ heap = << >>
       /\ DOMAIN Decoders = {"base64"}
       /\ DOMAIN MediaTypes = {"application/json", "application/xml", "application/yaml"}
       /\ DOMAIN Loaders = {"http", "https"}
       /\ Loaders["http"] = Loaders["https"]
       /\ Loaders["http"] = "defaultHTTPLoader"
       /\ DefaultBaseURI = EmptyString
       /\ AssertFormat = FALSE

\* The Compiler as NewCompiler returned it, before any call on it.
C11_Witness ==
    /\ last.op = "NewCompiler" /\ nconf = 0
    /\ "https" \in DOMAIN Loaders /\ "base64" \in DOMAIN Decoders
    /\ Cardinality(DOMAIN MediaTypes) = 3
    /\ schemas = << >>

\* C12: a GetSchema call that invokes the default HTTP loader gets from it:
\* on a transport error, an error made of the URL and the transport error's
\* text, and no body; on a status other than 200, an error made of the URL,
\* the status code and its reason phrase, after the loader has closed the
\* response body, and no body; on status 200, and only then, the body,
\* which the loader has not closed.
C12_DefaultHTTPLoader ==
    (/\ last.op = "GetSchema" /\ last.did.loads = 1
     /\ before.loaders[getURLScheme(last.arg)] = "defaultHTTPLoader")
    => LET w == last.did.wire
       IN  /\ w.transport \in {"err", "ok"}
           /\ w.transport = "err"
                => /\ last.out = ErrWith("fetch", Detail(last.arg, 0, TransportError))
                   /\ last.did.opened = 0
                   /\ w.respClosed = 0
           /\ (w.transport = "ok" /\ w.status # 200)
                => /\ last.out.kind = "err" /\ last.out.err = "status"
                   /\ last.out.detail.url = last.arg
                   /\ last.out.detail.code = w.status
                   /\ w.status = 404 => last.out.detail.text = "Not Found"
                   /\ w.status = 500 => last.out.detail.text = "Internal Server Error"
                   /\ last.did.opened = 0
                   /\ w.respClosed = 1
           /\ (w.transport = "ok" /\ w.status = 200)
                => /\ last.did.opened = 1
                   /\ w.respClosed = 0
                   /\ ~(last.out.kind = "err" /\ last.out.err \in {"fetch", "status"})
           /\ last.did.opened = 1 => (w.transport = "ok" /\ w.status = 200)

\* The default loader was refused a reference with a fragment with status
\* 500: it closed the response body and returned the error alone.
C12_Witness ==
    /\ last.op = "GetSchema" /\ last.arg = Doc1X /\ last.did.loads = 1
    /\ before.loaders["https"] = "defaultHTTPLoader"
    /\ last.did.wire = Wire("ok", 500, 1)
    /\ last.out = ErrWith("status", Detail(Doc1X, 500, "Internal Server Error"))
    /\ last.did.opened = 0

\* C13: a successful GetSchema call whose base URI is not cached invokes the
\* loader once and compiles the document with the base URI as the hint (a
\* document declaring no identifier is built under the base URI); for a
\* reference with a non-empty anchor it returns the sub-schema the compiled
\* schema's anchor resolver gives for the anchor, never the compiled root,
\* and for one without it returns the compiled schema.  When the anchor is
\* not in the compiled document the call fails with the resolver's error.
C13_MissResolvesAnchor ==
    (/\ last.op = "GetSchema"
     /\ splitRef(last.arg).base \notin DOMAIN before.schemas)
    => LET base == splitRef(last.arg).base
           anchor == splitRef(last.arg).anchor
           h == last.out.schema.h
       IN  /\ last.out.kind = "ok"
                => /\ last.did.loads = 1
                   /\ h \in 1 .. Len(heap)
                   /\ last.did.inits = 1
                        => /\ h = Len(heap)
                           /\ Len(heap) = before.nheap + 1
                           /\ heap[h].uri = (IF heap[h].ID # EmptyString
                                             THEN heap[h].ID ELSE base)
                   /\ last.did.inits = 0
                        => \E uri \in DOMAIN before.schemas :
                               before.schemas[uri] = h
                   /\ anchor # EmptyString
                        => /\ last.out = resolveAnchor(heap, h, anchor)
                           /\ last.out.schema = Sub(h, anchor)
                           /\ last.out.schema # Root(h)
                           /\ anchor \in heap[h].anchors
                   /\ anchor = EmptyString => last.out.schema = Root(h)
           /\ (last.out.kind = "err" /\ last.out.err = "anchor not found"
               /\ last.did.inits = 1)
                => /\ anchor # EmptyString
                   /\ anchor \notin heap[Len(heap)].anchors
                   /\ last.out = resolveAnchor(heap, Len(heap), anchor)

\* A GetSchema call of https://ex/schema.json#x missed the cache, fetched a
\* document declaring no identifier, built it under https://ex/schema.json
\* and returned its sub-schema x.
C13_Witness ==
    /\ last.op = "GetSchema" /\ last.arg = Doc1X
    /\ Doc1 \notin DOMAIN before.schemas
    /\ last.did.loads = 1 /\ last.did.inits = 1
    /\ last.out = Ok(Sub(Len(heap), <<"x">>))
    /\ heap[Len(heap)].uri = Doc1
    /\ schemas[Doc1] = Len(heap)

\* The GetSchema calls the goroutines have returned from.
DoneGets == {p \in Procs : threads[p].pc = "done" /\ threads[p].op = "GetSchema"}

\* C14: nothing coordinates two calls in flight.  A GetSchema call invokes
\* the loader exactly when its own two reads of the cache missed, and a
\* Compile step initializes a schema of its own exactly when its own read
\* of the cache missed, whatever the other goroutine has fetched or is about
\* to insert; so two GetSchema calls of one URI that both read the cache
\* before either wrote it each invoke the loader and return two instances.
C14_NoCoordination ==
    /\ \A p \in DoneGets :
          threads[p].loads =
              (IF threads[p].sawGet = "miss" /\ threads[p].sawResolve = "miss"
               THEN 1 ELSE 0)
    /\ \A p \in Procs :
          threads[p].pc = "done"
          => /\ threads[p].sawCompile = "hit" => threads[p].inits = 0
             /\ threads[p].sawCompile = "miss" => threads[p].inits = 1
    /\ \A p, q \in DoneGets :
          (/\ p # q
           /\ splitRef(threads[p].ref).base = splitRef(threads[q].ref).base
           /\ threads[p].out.kind = "ok" /\ threads[q].out.kind = "ok"
           /\ threads[p].sawCompile = "miss" /\ threads[q].sawCompile = "miss")
          => /\ threads[p].loads = 1 /\ threads[q].loads = 1
             /\ threads[p].out.schema.h # threads[q].out.schema.h

\* Two GetSchema calls of https://ex/schema.json have both returned: each
\* invoked the loader, each was given an instance of its own, and the cache
\* keeps the one written last.
C14_Witness ==
    /\ DoneGets = Procs
    /\ \A p \in Procs :
          /\ threads[p].ref = Doc1
          /\ threads[p].loads = 1
          /\ threads[p].out.kind = "ok"
    /\ threads["p"].out.schema = Root(1)
    /\ threads["q"].out.schema = Root(2)
    /\ heap[1].uri = Doc1 /\ heap[2].uri = Doc1
    /\ schemas[Doc1] = 2

\* C15: a GetSchema call of a reference with a non-empty anchor, whose own
\* read of the cache missed the base URI and whose read in resolveSchemaURL
\* found it (inserted in between by the other goroutine), returns the
\* sub-schema the anchor names and not the base document's schema.
C15_AnchorKept ==
    \A p \in DoneGets :
        (/\ splitRef(threads[p].ref).anchor # EmptyString
         /\ threads[p].sawGet = "miss"
         /\ threads[p].sawResolve = "hit"
         /\ threads[p].out.kind = "ok")
        => threads[p].out.schema.path = <<splitRef(threads[p].ref).anchor>>

C17_Frame ==
    last.op \in {"Compile", "GetSchema"}
    => /\ Decoders = before.decoders
       /\ MediaTypes = before.mediaTypes
       /\ Loaders = before.loaders
       /\ DefaultBaseURI = before.baseURI
       /\ AssertFormat = before.assertFormat
       /\ (last.op = "GetSchema" /\ splitRef(last.arg).base \in DOMAIN before.schemas)
            => /\ schemas = before.schemas
               /\ Len(heap) = before.nheap

\* After a custom loader had replaced the default one of https, a GetSchema
\* call was answered from the cache.
C17_Witness ==
    /\ last.op = "GetSchema" /\ last.hit /\ last.out.kind = "ok"
    /\ Loaders["https"] = "memLoader"
    /\ before.loaders = Loaders
    /\ before.schemas # << >>
    /\ schemas = before.schemas

====
